---- MODULE Spec2Model ----
(***************************************************************************)
(* Model of intervention.py: the command line program `main`, the          *)
(* repository provisioning `ensure_repositories`, and the class            *)
(* `Intervention` (dictionary loading, name normalization, dictionary      *)
(* lookup, occurrence filter, the per-URL pipeline and the saved document).*)
(*                                                                         *)
(* Python strings that the code inspects character by character (names of  *)
(* technologies, names of dictionary files) are sequences of one-character *)
(* strings.  Python dicts with a varying key set are functions whose       *)
(* DOMAIN is the key set; Python objects that can be aliased (the          *)
(* discovery records) live in `heap` and are referred to by index.         *)
(***************************************************************************)
EXTENDS Integers, Sequences, FiniteSets, TLC

VARIABLES
    pc,               \* position of the program / of process_url
    argv,             \* the parsed command line (argparse namespace)
    fs,               \* the file system: existing directory -> its content
    git_log,          \* the git clone subprocesses run so far
    deleted,          \* the directories removed by shutil.rmtree so far
    exit_status,      \* -1 while running, else the exit status of the process
    error,            \* what ended the program, "" if nothing did
    tech_to_dict,     \* Intervention.tech_to_dict (in insertion order)
    mode,             \* Intervention.mode
    occurrence,       \* Intervention.occurrence
    detected_techs,   \* Intervention.detected_techs : url -> set of names
    ffuf_results,     \* Intervention.ffuf_results : <<url, tech>> -> list
    env,              \* how the external scanner behaves when it is started
    url_idx,          \* run: index of the URL being processed
    proc,             \* process_url: its local variables
    heap,             \* the discovery records (Python dict objects)
    tool_log,         \* the nuclei / ffuf subprocesses started so far
    saved,            \* the documents written by _save_results
    call,             \* the last direct call of a method: name and argument
    ret               \* and what it returned

vars == <<pc, argv, fs, git_log, deleted, exit_status, error, tech_to_dict,
          mode, occurrence, detected_techs, ffuf_results, env, url_idx, proc,
          heap, tool_log, saved, call, ret>>

(***************************************************************************)
(* Bounds of the model.                                                    *)
(***************************************************************************)
MaxTokens == 3        \* tokens of a name given to _normalize_tech_name
MaxLookupTokens == 2  \* tokens of a name given to _find_matching_dict
MaxFiles == 2         \* files in the dictionary directory
MaxResults == 3       \* discovery records in one list given to analyze_results
MaxOccurrence == 2    \* the --occurrence threshold ranges over 0..MaxOccurrence
MaxUrls == 2          \* URLs on the command line
MaxFfufResults == 2   \* discovery records returned by one ffuf run

(***************************************************************************)
(* Python None (also the falsy value of `if not dict_path`).               *)
(***************************************************************************)
None == <<>>

(***************************************************************************)
(* Strings                                                                 *)
(***************************************************************************)
LowerLetters ==
    <<"a","b","c","d","e","f","g","h","i","j","k","l","m",
      "n","o","p","q","r","s","t","u","v","w","x","y","z">>

UpperLetters ==
    <<"A","B","C","D","E","F","G","H","I","J","K","L","M",
      "N","O","P","Q","R","S","T","U","V","W","X","Y","Z">>

\* str.lower() on one character
LowerChar(c) ==
    IF \E i \in 1..26 : UpperLetters[i] = c
    THEN LowerLetters[CHOOSE i \in 1..26 : UpperLetters[i] = c]
    ELSE c

\* str.lower()
Lower(s) == [i \in 1..Len(s) |-> LowerChar(s[i])]

\* s.startswith(p)
StartsWith(s, p) == Len(p) <= Len(s) /\ SubSeq(s, 1, Len(p)) = p

\* s.endswith(p)
EndsWith(s, p) == Len(p) <= Len(s) /\ SubSeq(s, Len(s) - Len(p) + 1, Len(s)) = p

\* Python `a in b` on strings
Contains(b, a) ==
    \E i \in 0..(Len(b) - Len(a)) : SubSeq(b, i + 1, i + Len(a)) = a

\* str.replace(old, new): leftmost, non-overlapping, one pass from the left
RECURSIVE Replace(_, _, _)
Replace(s, old, new) ==
    IF Len(s) < Len(old) THEN s
    ELSE IF StartsWith(s, old)
         THEN new \o Replace(SubSeq(s, Len(old) + 1, Len(s)), old, new)
         ELSE <<s[1]>> \o Replace(Tail(s), old, new)

\* str.lstrip("-")
RECURSIVE LStripHyphen(_)
LStripHyphen(s) ==
    IF s # <<>> /\ s[1] = "-" THEN LStripHyphen(Tail(s)) ELSE s

\* str.rstrip("-")
RECURSIVE RStripHyphen(_)
RStripHyphen(s) ==
    IF s # <<>> /\ s[Len(s)] = "-"
    THEN RStripHyphen(SubSeq(s, 1, Len(s) - 1)) ELSE s

\* str.strip("-")
StripHyphen(s) == RStripHyphen(LStripHyphen(s))

s_detect == <<"d","e","t","e","c","t">>
s_detection == <<"d","e","t","e","c","t","i","o","n">>

(***************************************************************************)
(* Intervention._normalize_tech_name                                       *)
(***************************************************************************)
_normalize_tech_name(tech_name) ==
    LET t1 == Lower(tech_name)
        t2 == Replace(t1, <<" ">>, <<"-">>)
        t3 == Replace(t2, <<"_">>, <<"-">>)
        t4 == Replace(t3, <<".">>, <<>>)
        t5 == Replace(t4, s_detect, <<>>)
        t6 == Replace(t5, s_detection, <<>>)
        t7 == Replace(t6, <<"-">> \o s_detect, <<>>)
        t8 == Replace(t7, <<"-">> \o s_detection, <<>>)
    IN  StripHyphen(t8)

(***************************************************************************)
(* Dictionary files.  A wordlist of technology T is T_short.txt or         *)
(* T_long.txt; its path is modelled by the file name, the directory being  *)
(* Intervention.dict_path for every file.                                  *)
(***************************************************************************)
s_short_txt == <<"_","s","h","o","r","t",".","t","x","t">>
s_long_txt == <<"_","l","o","n","g",".","t","x","t">>

s_php == <<"p","h","p">>
s_myadmin == <<"m","y","a","d","m","i","n">>
s_phpmyadmin == s_php \o s_myadmin
s_nginx == <<"n","g","i","n","x">>
s_readme_txt == <<"r","e","a","d","m","e",".","t","x","t">>

\* the *.txt files a dictionary directory may hold
DictFiles ==
    { s_php \o s_long_txt, s_php \o s_short_txt,
      s_phpmyadmin \o s_short_txt, s_nginx \o s_long_txt, s_readme_txt }

\* re.compile(r'^(.+?)_(short|long)\.txt$').match(file.name):
\* <<tech_name, dict_type>>, or None when the name does not match
DictPattern(name) ==
    IF EndsWith(name, s_short_txt) /\ Len(name) > Len(s_short_txt)
    THEN <<SubSeq(name, 1, Len(name) - Len(s_short_txt)), "short">>
    ELSE IF EndsWith(name, s_long_txt) /\ Len(name) > Len(s_long_txt)
         THEN <<SubSeq(name, 1, Len(name) - Len(s_long_txt)), "long">>
         ELSE None

\* `tech in tech_to_dict`
HasKey(ttd, tech) == \E i \in 1..Len(ttd) : ttd[i].tech = tech

\* tech_to_dict[tech]
Get(ttd, tech) == ttd[CHOOSE i \in 1..Len(ttd) : ttd[i].tech = tech].files

\* the condition of line 125 under which a file is stored
StoreType(dict_type, m) ==
    dict_type = m \/ (dict_type = "long" /\ m = "long")

\* the body of the loop of _load_technologies for one file
LoadFile(ttd, file, m) ==
    LET match == DictPattern(file) IN
    IF match = None THEN ttd
    ELSE LET tech_name == match[1]
             dict_type == match[2]
             ttd1 == IF HasKey(ttd, tech_name) THEN ttd
                     ELSE Append(ttd, [tech |-> tech_name, files |-> <<>>])
             i == CHOOSE j \in 1..Len(ttd1) : ttd1[j].tech = tech_name
         IN  IF StoreType(dict_type, m)
             THEN [ttd1 EXCEPT ![i].files =
                      [t \in DOMAIN ttd1[i].files \cup {dict_type} |->
                          IF t = dict_type THEN file ELSE ttd1[i].files[t]]]
             ELSE ttd1

\* Intervention._load_technologies on the listing glob("*.txt") yields,
\* starting from tech_to_dict = {}
RECURSIVE LoadFrom(_, _, _)
LoadFrom(ttd, listing, m) ==
    IF listing = <<>> THEN ttd
    ELSE LoadFrom(LoadFile(ttd, Head(listing), m), Tail(listing), m)

_load_technologies(listing, m) == LoadFrom(<<>>, listing, m)

\* the if / elif / elif chain of _find_matching_dict on one technology's
\* files: the file returned, or None when the chain returns nothing
PickDict(files, m) ==
    IF m \in DOMAIN files THEN files[m]
    ELSE IF "long" \in DOMAIN files THEN files["long"]
    ELSE IF "short" \in DOMAIN files THEN files["short"]
    ELSE None

\* the mutant: only the exact name matches
RelatedExact(normalized, tech) == normalized = tech

\* the conditions of lines 157 and 164 under which a technology is tried
Related(normalized, tech) ==
    normalized = tech \/ Contains(tech, normalized) \/ Contains(normalized, tech)

\* the loop `for tech in self.tech_to_dict.keys()` from index i on
RECURSIVE FindLoop(_, _, _, _)
FindLoop(ttd, m, normalized, i) ==
    IF i > Len(ttd) THEN None
    ELSE IF Related(normalized, ttd[i].tech) /\ PickDict(ttd[i].files, m) # None
         THEN PickDict(ttd[i].files, m)
         ELSE FindLoop(ttd, m, normalized, i + 1)

\* Intervention._find_matching_dict
_find_matching_dict(ttd, m, tech_name) ==
    LET normalized == _normalize_tech_name(tech_name) IN
    IF HasKey(ttd, normalized) /\ PickDict(Get(ttd, normalized), m) # None
    THEN PickDict(Get(ttd, normalized), m)
    ELSE FindLoop(ttd, m, normalized, 1)

(***************************************************************************)
(* Discovery records.  A record is a Python dict: a function from its keys *)
(* to their values; `length` may be missing.                               *)
(***************************************************************************)
Lengths == {0, 7}

\* the records ffuf may report
RawRecords ==
    [url : {"/a"}, status : {200}]
    \cup [url : {"/a", "/b"}, status : {200}, length : Lengths]

\* result.get("length", 0)
GetLength(r) == IF "length" \in DOMAIN r THEN r.length ELSE 0

\* {**r, key: value}
With(r, key, value) ==
    [k \in DOMAIN r \cup {key} |-> IF k = key THEN value ELSE r[k]]

\* the records a list of references denotes
Deref(h, refs) == [i \in 1..Len(refs) |-> h[refs[i]]]

\* length_counts[length] after the first loop of analyze_results
LengthCount(h, results, length) ==
    Cardinality({i \in 1..Len(results) : GetLength(h[results[i]]) = length})

\* the mutant: a strict comparison
KeepsStrict(count, occ) == count < occ

\* the test of line 347
Keeps(count, occ) == count <= occ

\* the mutant: occurrence_count is written into the input record, which is
\* appended itself
AnalyzeInPlace(h, results, occ, i, out) ==
    LET r == h[results[i]]
        count == LengthCount(h, results, GetLength(r))
    IN  IF Keeps(count, occ)
        THEN [heap |-> [h EXCEPT ![results[i]] = With(r, "occurrence_count", count)],
              out |-> Append(out, results[i])]
        ELSE [heap |-> h, out |-> out]

\* the body of the second loop of analyze_results for results[i]: a new dict
\* is allocated for a kept record
AnalyzeOne(h, results, occ, i, out) ==
    LET r == h[results[i]]
        count == LengthCount(h, results, GetLength(r))
    IN  IF Keeps(count, occ)
        THEN [heap |-> Append(h, With(r, "occurrence_count", count)),
              out |-> Append(out, Len(h) + 1)]
        ELSE [heap |-> h, out |-> out]

\* the second loop of analyze_results from index i on
RECURSIVE AnalyzeLoop(_, _, _, _, _)
AnalyzeLoop(h, results, occ, i, out) ==
    IF i > Len(results) THEN [heap |-> h, out |-> out]
    ELSE LET s == AnalyzeOne(h, results, occ, i, out)
         IN  AnalyzeLoop(s.heap, results, occ, i + 1, s.out)

\* Intervention.analyze_results: the heap after the call and the list returned
analyze_results(h, results, occ) == AnalyzeLoop(h, results, occ, 1, <<>>)

(***************************************************************************)
(* Paths and the file system.  A path is the sequence of its components,   *)
(* relative to the working directory <<>> (which always exists).  The      *)
(* content of a directory is the listing glob("*.txt") gives for it and    *)
(* the set of *.yaml files found below it.                                 *)
(***************************************************************************)
DefaultDict == <<"OneListForAll", "dict">>        \* --dict default
DefaultNuclei == <<"nuclei-templates">>          \* --nuclei-templates default

YamlFiles == {"tech-detect", "favicon-detect", "other"}

EmptyDir == [txt |-> <<>>, yaml |-> {}]

\* Path.exists()
Exists(f, p) == p = <<>> \/ p \in DOMAIN f

\* the sequences without repetition of at most n dictionary files: what
\* glob("*.txt") may yield, in any order
Listings(n) ==
    { l \in UNION { [1..k -> DictFiles] : k \in 0..n } :
        \A i, j \in 1..Len(l) : i # j => l[i] # l[j] }

\* the names made of at most n tokens
RECURSIVE NamesOf(_, _)
NamesOf(tokens, n) ==
    IF n = 0 THEN { <<>> }
    ELSE LET shorter == NamesOf(tokens, n - 1)
         IN  shorter \cup { s \o t : s \in shorter, t \in tokens }

s_aspnet == <<"A","S","P",".","N","E","T">>

\* the suffixes nuclei templates give to technology names
DetectSuffixes ==
    { <<"-">> \o s_detect, <<" ">> \o s_detect, <<"_">> \o s_detect,
      <<"-">> \o s_detection, <<"_">> \o s_detection }

\* the tokens of the names given to _normalize_tech_name
NameTokens ==
    { s_php, s_aspnet, <<"a","-","b">>, <<"-">>, s_detect,
      <<"d","e">>, <<"t","e","c","t">> }
    \cup DetectSuffixes

\* the tokens of the names given to _find_matching_dict
LookupTokens ==
    { s_php, s_myadmin, s_nginx, <<"x">>, <<"P">>, s_detect, <<"-">> \o s_detect }

\* the lists of at most n discovery records
ResultLists(n) == UNION { [1..k -> RawRecords] : k \in 0..n }

(***************************************************************************)
(* An Intervention object: the state after Intervention.__init__ for a     *)
(* dictionary directory holding `listing`.                                 *)
(***************************************************************************)
InitObject(listing, m, occ) ==
    /\ argv = [dict |-> DefaultDict, nuclei_templates |-> DefaultNuclei,
               mode |-> m, occurrence |-> occ, no_auto_clone |-> TRUE,
               urls |-> <<>>]
    /\ fs = [p \in {<<"OneListForAll">>, DefaultDict} |->
                IF p = DefaultDict THEN [txt |-> listing, yaml |-> {}]
                ELSE EmptyDir]
    /\ git_log = <<>>
    /\ deleted = {}
    /\ exit_status = -1
    /\ error = ""
    /\ tech_to_dict = _load_technologies(listing, m)
    /\ mode = m
    /\ occurrence = occ
    /\ detected_techs = <<>>
    /\ ffuf_results = <<>>
    /\ env = [nuclei |-> "ok", git |-> "installed"]
    /\ url_idx = 0
    /\ heap = <<>>
    /\ tool_log = <<>>
    /\ saved = <<>>
    /\ ret = None

\* a method is about to be called directly with argument a
Calling(f, a) ==
    /\ pc = "call"
    /\ proc = <<>>
    /\ call = [fn |-> f, arg |-> a, again |-> FALSE]

\* what a direct call of a pure method leaves alone
CallFrame ==
    UNCHANGED <<argv, fs, git_log, deleted, exit_status, error, tech_to_dict,
                mode, occurrence, detected_techs, ffuf_results, env, url_idx,
                proc, tool_log, saved, call>>

\* the call _normalize_tech_name(call.arg)
NormalizeCall ==
    /\ pc = "call"
    /\ call.fn = "_normalize_tech_name"
    /\ ret' = _normalize_tech_name(call.arg)
    /\ pc' = "returned"
    /\ UNCHANGED heap
    /\ CallFrame

\* the call _find_matching_dict(call.arg)
FindCall ==
    /\ pc = "call"
    /\ call.fn = "_find_matching_dict"
    /\ ret' = _find_matching_dict(tech_to_dict, mode, call.arg)
    /\ pc' = "returned"
    /\ UNCHANGED heap
    /\ CallFrame

\* the call analyze_results(results), the list `results` referring to the
\* records call.arg, freshly allocated at 1..Len(call.arg)
AnalyzeCall ==
    LET results == [i \in 1..Len(call.arg) |-> i]
        r == analyze_results(call.arg, results, occurrence)
    IN  /\ pc = "call"
        /\ call.fn = "analyze_results"
        /\ heap' = r.heap
        /\ ret' = r.out
        /\ pc' = "returned"
        /\ CallFrame

\* the caller repeats the call it has just made
CallAgain ==
    /\ pc = "returned"
    /\ ~call.again
    /\ call' = [call EXCEPT !.again = TRUE]
    /\ pc' = "call"
    /\ UNCHANGED <<argv, fs, git_log, deleted, exit_status, error,
                   tech_to_dict, mode, occurrence, detected_techs,
                   ffuf_results, env, url_idx, proc, tool_log, saved, heap, ret>>

\* _normalize_tech_name on its own
InitNormalize ==
    \E m \in {"short", "long"}, s \in NamesOf(NameTokens, MaxTokens) :
        InitObject(<<>>, m, 1) /\ Calling("_normalize_tech_name", s)
NextNormalize == NormalizeCall
SpecNormalize == InitNormalize /\ [][NextNormalize]_vars

\* _find_matching_dict for every dictionary directory
InitLookup ==
    \E l \in Listings(MaxFiles), m \in {"short", "long"},
       s \in NamesOf(LookupTokens, MaxLookupTokens) :
        InitObject(l, m, 1) /\ Calling("_find_matching_dict", s)
NextLookup == FindCall
SpecLookup == InitLookup /\ [][NextLookup]_vars

\* analyze_results for every threshold
InitAnalyze ==
    \E occ \in 0..MaxOccurrence, records \in ResultLists(MaxResults) :
        InitObject(<<s_php \o s_long_txt>>, "long", occ)
        /\ Calling("analyze_results", records)
NextAnalyze == AnalyzeCall
SpecAnalyze == InitAnalyze /\ [][NextAnalyze]_vars

\* the three pure methods, each called twice in a row on one object
InitPure ==
    \E l \in Listings(MaxFiles), m \in {"short", "long"} :
        /\ InitObject(l, m, 1)
        /\ \/ \E s \in NamesOf(LookupTokens, 1) : Calling("_normalize_tech_name", s)
           \/ \E s \in NamesOf(LookupTokens, 1) : Calling("_find_matching_dict", s)
           \/ \E records \in ResultLists(MaxFfufResults) :
                 Calling("analyze_results", records)
NextPure == NormalizeCall \/ FindCall \/ AnalyzeCall \/ CallAgain
SpecPure == InitPure /\ [][NextPure]_vars

(***************************************************************************)
(* ensure_repositories                                                     *)
(***************************************************************************)
\* Path.parent
Parent(p) == IF p = <<>> THEN <<>> ELSE SubSeq(p, 1, Len(p) - 1)

\* Path.name
Name(p) == IF p = <<>> THEN "" ELSE p[Len(p)]

\* p is q or lies below q
IsBelow(p, q) == Len(q) <= Len(p) /\ SubSeq(p, 1, Len(q)) = q

\* any(dict_dir.glob("*.txt"))
AnyTxt(f, p) == p \in DOMAIN f /\ f[p].txt # <<>>

\* any(nuclei_dir.rglob("*.yaml"))
AnyYaml(f, p) == \E d \in DOMAIN f : IsBelow(d, p) /\ f[d].yaml # {}

\* Path.mkdir(parents=True, exist_ok=True)
Mkdir(f, p) ==
    [d \in DOMAIN f \cup { SubSeq(p, 1, k) : k \in 1..Len(p) } |->
        IF d \in DOMAIN f THEN f[d] ELSE EmptyDir]

\* shutil.rmtree(p)
Rmtree(f, p) == [d \in { x \in DOMAIN f : ~IsBelow(x, p) } |-> f[d]]

\* the directories shutil.rmtree(p) removes, with their content
Removed(f, p) ==
    { [path |-> d, content |-> f[d]] : d \in { x \in DOMAIN f : IsBelow(x, p) } }

\* what the repository six2dez/OneListForAll holds: dict/*.txt and some
\* *.txt at its top
RepoDictTxt ==
    << s_php \o s_long_txt, s_php \o s_short_txt,
       s_phpmyadmin \o s_short_txt, s_nginx \o s_long_txt >>
RepoTopTxt == << s_readme_txt >>

\* a successful git clone of OneListForAll into p
CloneOneList(f, p) ==
    LET g == Mkdir(f, p \o <<"dict">>) IN
    [d \in DOMAIN g |->
        IF d = p THEN [txt |-> RepoTopTxt, yaml |-> {}]
        ELSE IF d = p \o <<"dict">> THEN [txt |-> RepoDictTxt, yaml |-> {}]
        ELSE g[d]]

\* a successful git clone of nuclei-templates into p
CloneNuclei(f, p) ==
    LET g == Mkdir(f, p) IN
    [d \in DOMAIN g |-> IF d = p THEN [txt |-> <<>>, yaml |-> YamlFiles] ELSE g[d]]

\* the directory OneListForAll is cloned into (lines 32-37)
OneListDir(dict_dir) ==
    IF Name(Parent(dict_dir)) = "OneListForAll" THEN Parent(dict_dir)
    ELSE Parent(dict_dir) \o <<"OneListForAll">>

\* the test of line 27
DictFound(f, dict_dir) == Exists(f, dict_dir) /\ AnyTxt(f, dict_dir)

\* the first half of ensure_repositories (lines 27-60); outcome is how the
\* git subprocess ends: "ok", "failed" (CalledProcessError) or "missing"
\* (FileNotFoundError).  s is [fs, deleted, git_log, exit_status, error].
EnsureDict(s, dict_dir, outcome) ==
    IF DictFound(s.fs, dict_dir) THEN s
    ELSE LET one_list_dir == OneListDir(dict_dir)
             f1 == IF Exists(s.fs, Parent(dict_dir)) THEN s.fs
                   ELSE Mkdir(s.fs, Parent(dict_dir))
             gone == IF Exists(f1, one_list_dir) THEN Removed(f1, one_list_dir) ELSE {}
             f2 == IF Exists(f1, one_list_dir) THEN Rmtree(f1, one_list_dir) ELSE f1
             log == Append(s.git_log, [repo |-> "OneListForAll",
                                       target |-> one_list_dir, outcome |-> outcome])
         IN  [fs |-> IF outcome = "ok" THEN CloneOneList(f2, one_list_dir) ELSE f2,
              deleted |-> s.deleted \cup gone,
              git_log |-> log,
              exit_status |-> IF outcome = "ok" THEN -1 ELSE 1,
              error |-> IF outcome = "ok" THEN ""
                        ELSE IF outcome = "failed" THEN "clone_failed" ELSE "git_missing"]

\* the second half of ensure_repositories (lines 62-89)
EnsureNuclei(s, nuclei_dir, outcome) ==
    IF Exists(s.fs, nuclei_dir) /\ AnyYaml(s.fs, nuclei_dir) THEN s
    ELSE LET f1 == IF Exists(s.fs, Parent(nuclei_dir)) THEN s.fs
                   ELSE Mkdir(s.fs, Parent(nuclei_dir))
             gone == IF Exists(f1, nuclei_dir) THEN Removed(f1, nuclei_dir) ELSE {}
             f2 == IF Exists(f1, nuclei_dir) THEN Rmtree(f1, nuclei_dir) ELSE f1
             log == Append(s.git_log, [repo |-> "nuclei-templates",
                                       target |-> nuclei_dir, outcome |-> outcome])
         IN  [fs |-> IF outcome = "ok" THEN CloneNuclei(f2, nuclei_dir) ELSE f2,
              deleted |-> s.deleted \cup gone,
              git_log |-> log,
              exit_status |-> IF outcome = "ok" THEN -1 ELSE 1,
              error |-> IF outcome = "ok" THEN ""
                        ELSE IF outcome = "failed" THEN "clone_failed" ELSE "git_missing"]

\* how a git subprocess may end in environment e
GitOutcomes(e) == IF e.git = "missing" THEN {"missing"} ELSE {"ok", "failed"}

\* ensure_repositories(dict_path, nuclei_templates_path): sys.exit(1) in the
\* first half ends the program before the second half
ensure_repositories(s, dict_path, nuclei_templates_path, o1, o2) ==
    LET s1 == EnsureDict(s, dict_path, o1)
    IN  IF s1.exit_status # -1 THEN s1 ELSE EnsureNuclei(s1, nuclei_templates_path, o2)

(***************************************************************************)
(* main                                                                    *)
(***************************************************************************)
Urls == {"http://a", "http://b"}

DictPaths == { DefaultDict, <<"wordlists", "dict">>, <<"dict">> }
NucleiPaths == { DefaultNuclei, <<"OneListForAll", "nuclei-templates">> }

\* the command lines
CommandLines ==
    [ dict : DictPaths, nuclei_templates : NucleiPaths, mode : {"short", "long"},
      occurrence : {MaxOccurrence}, no_auto_clone : BOOLEAN,
      urls : UNION { [1..n -> Urls] : n \in 0..MaxUrls } ]

\* what a directory may hold before the program starts
DirContents(a, d) ==
    IF d = a.dict THEN { EmptyDir, [txt |-> <<s_php \o s_long_txt>>, yaml |-> {}] }
    ELSE IF d = a.nuclei_templates
         THEN { EmptyDir, [txt |-> <<>>, yaml |-> {"other"}],
                [txt |-> <<>>, yaml |-> YamlFiles] }
         ELSE { EmptyDir }

\* the file systems the program may start in: any of the directories the
\* command line names, and of those above them, may exist
FileSystems(a) ==
    LET named == { a.dict, OneListDir(a.dict), a.nuclei_templates }
        dirs == UNION { { SubSeq(p, 1, k) : k \in 1..Len(p) } : p \in named }
        closed == { D \in SUBSET dirs :
                      \A d \in D : Parent(d) = <<>> \/ Parent(d) \in D }
    IN  UNION { { f \in [D -> UNION { DirContents(a, d) : d \in D }] :
                    \A d \in D : f[d] \in DirContents(a, d) } : D \in closed }

Init ==
    /\ pc = "main"
    /\ argv \in CommandLines
    /\ fs \in FileSystems(argv)
    /\ env \in [nuclei : {"ok", "timeout", "missing"}, git : {"installed", "missing"}]
    /\ git_log = <<>>
    /\ deleted = {}
    /\ exit_status = -1
    /\ error = ""
    /\ tech_to_dict = <<>>
    /\ mode = ""
    /\ occurrence = 0
    /\ detected_techs = <<>>
    /\ ffuf_results = <<>>
    /\ url_idx = 0
    /\ proc = <<>>
    /\ heap = <<>>
    /\ tool_log = <<>>
    /\ saved = <<>>
    /\ call = [fn |-> "main"]
    /\ ret = None

\* main, lines 512-513: ensure_repositories unless --no-auto-clone
EnsureRepositories ==
    /\ pc = "main"
    /\ ~argv.no_auto_clone
    /\ \E o1, o2 \in GitOutcomes(env) :
          LET s == ensure_repositories(
                      [fs |-> fs, deleted |-> deleted, git_log |-> git_log,
                       exit_status |-> exit_status, error |-> error],
                      argv.dict, argv.nuclei_templates, o1, o2)
          IN  /\ fs' = s.fs
              /\ deleted' = s.deleted
              /\ git_log' = s.git_log
              /\ exit_status' = s.exit_status
              /\ error' = s.error
              /\ pc' = IF s.exit_status = -1 THEN "init" ELSE "exited"
    /\ UNCHANGED <<argv, tech_to_dict, mode, occurrence, detected_techs,
                   ffuf_results, env, url_idx, proc, heap, tool_log, saved,
                   call, ret>>

\* main with --no-auto-clone
SkipRepositories ==
    /\ pc = "main"
    /\ argv.no_auto_clone
    /\ pc' = "init"
    /\ UNCHANGED <<argv, fs, git_log, deleted, exit_status, error,
                   tech_to_dict, mode, occurrence, detected_techs,
                   ffuf_results, env, url_idx, proc, heap, tool_log, saved,
                   call, ret>>

\* main, lines 523-529: Intervention.__init__, which ends in
\* _load_technologies (sys.exit(1) when dict_path does not exist)
Construct ==
    /\ pc = "init"
    /\ mode' = argv.mode
    /\ occurrence' = argv.occurrence
    /\ detected_techs' = <<>>
    /\ ffuf_results' = <<>>
    /\ IF Exists(fs, argv.dict)
       THEN /\ tech_to_dict' = _load_technologies(fs[argv.dict].txt, argv.mode)
            /\ pc' = "run"
            /\ UNCHANGED <<exit_status, error>>
       ELSE /\ tech_to_dict' = <<>>
            /\ pc' = "exited"
            /\ exit_status' = 1
            /\ error' = "dict_missing"
    /\ UNCHANGED <<argv, fs, git_log, deleted, env, url_idx, proc, heap,
                   tool_log, saved, call, ret>>

\* the template files detect_technologies looks for (lines 178-191)
TemplatesToUse(f, nuclei_templates_path) ==
    IF nuclei_templates_path \in DOMAIN f
    THEN f[nuclei_templates_path].yaml \cap {"tech-detect", "favicon-detect"}
    ELSE {}

\* Intervention.detect_technologies(url).  exposures_path is the str "", so
\* `exposures_path.exists()` at line 192 raises AttributeError, outside the
\* try of line 214: the call never gets as far as the test of line 201 or
\* the nuclei subprocess of line 219, whatever templates_to_use holds.
detect_technologies(f, nuclei_templates_path, url) ==
    LET templates_to_use == TemplatesToUse(f, nuclei_templates_path)
    IN  [raised |-> "AttributeError", started |-> <<>>, detected |-> {}]

\* run, lines 462-463: process_url for the next URL.  The exception raised
\* by detect_technologies at line 359 is caught nowhere: the interpreter
\* prints the traceback and exits with status 1.
ProcessUrl ==
    /\ pc = "run"
    /\ url_idx < Len(argv.urls)
    /\ url_idx' = url_idx + 1
    /\ LET r == detect_technologies(fs, argv.nuclei_templates, argv.urls[url_idx + 1])
       IN  /\ tool_log' = tool_log \o r.started
           /\ r.raised # ""
           /\ pc' = "exited"
           /\ exit_status' = 1
           /\ error' = r.raised
    /\ UNCHANGED <<argv, fs, git_log, deleted, tech_to_dict, mode, occurrence,
                   detected_techs, ffuf_results, env, proc, heap, saved, call, ret>>

\* run, line 465: the loop over the URLs is over
RunEnd ==
    /\ pc = "run"
    /\ url_idx = Len(argv.urls)
    /\ pc' = "exited"
    /\ exit_status' = 0
    /\ UNCHANGED <<argv, fs, git_log, deleted, error, tech_to_dict, mode,
                   occurrence, detected_techs, ffuf_results, env, url_idx, proc,
                   heap, tool_log, saved, call, ret>>

Next == EnsureRepositories \/ SkipRepositories \/ Construct \/ ProcessUrl \/ RunEnd

Spec == Init /\ [][Next]_vars

(***************************************************************************)
(* process_url after detect_technologies: lines 360-401, for the set of    *)
(* names detect_technologies is written to return (the normalized names of *)
(* the nuclei findings).                                                   *)
(***************************************************************************)
\* how an ffuf subprocess may end: it writes its findings to the output
\* file, it runs into the timeout, the executable is missing, or anything
\* else goes wrong (no output file, no "results" key, unreadable JSON)
\* the records ffuf reports in the runs of process_url
FfufRecords ==
    { [url |-> "/a", status |-> 200],
      [url |-> "/a", status |-> 200, length |-> 7],
      [url |-> "/b", status |-> 200, length |-> 7] }

FfufOutcomes ==
    { [kind |-> "results", records |-> l] :
        l \in UNION { [1..k -> FfufRecords] : k \in 0..MaxFfufResults } }
    \cup { [kind |-> k, records |-> <<>>] : k \in {"timeout", "missing", "error"} }

\* Intervention.run_ffuf: the heap with the records read from the output
\* file, the list returned, and whether sys.exit(1) was called
run_ffuf(h, outcome) ==
    [heap |-> IF outcome.kind = "results" THEN h \o outcome.records ELSE h,
     results |-> IF outcome.kind = "results"
                 THEN [i \in 1..Len(outcome.records) |-> Len(h) + i]
                 ELSE <<>>,
     exit |-> outcome.kind = "missing"]

\* lines 387-389: every analyzed record gets its tech and dict_used
Annotate(h, analyzed, tech, dict_path) ==
    [i \in 1..Len(h) |->
        IF \E k \in 1..Len(analyzed) : analyzed[k] = i
        THEN With(With(h[i], "tech", tech), "dict_used", dict_path)
        ELSE h[i]]

\* d[key] = value on a dict kept as the sequence of its items
SetItem(d, key, value) ==
    IF \E i \in 1..Len(d) : d[i].key = key
    THEN [i \in 1..Len(d) |-> IF d[i].key = key THEN [key |-> key, value |-> value]
                              ELSE d[i]]
    ELSE Append(d, [key |-> key, value |-> value])

\* the mutant: all the records of the run are passed on, analyzed or not
PassAll(h, results, occ) ==
    [heap |-> [i \in 1..Len(h) |->
                  IF \E k \in 1..Len(results) : results[k] = i
                  THEN With(h[i], "occurrence_count", LengthCount(h, results, GetLength(h[i])))
                  ELSE h[i]],
     out |-> results]

\* line 385: the records of one run are analyzed on their own
AnalyzeRun(h, results, occ) == analyze_results(h, results, occ)

\* lines 382-395 of the loop of process_url, for a technology whose
\* dictionary is dict_path.
\* s is [heap, all_results, tech_results_map, ffuf_results, tool_log, exit].
ProcessTech(s, occ, url, tech, dict_path, outcome) ==
    LET r == run_ffuf(s.heap, outcome)
        log == Append(s.tool_log,
                  [tool |-> "ffuf", url |-> url, tech |-> tech,
                   wordlist |-> dict_path, outcome |-> outcome.kind,
                   records |-> outcome.records])
        a == AnalyzeRun(r.heap, r.results, occ)
    IN  IF r.exit THEN [s EXCEPT !.tool_log = log, !.exit = TRUE]
        ELSE IF r.results = <<>> THEN [s EXCEPT !.tool_log = log, !.heap = r.heap]
        ELSE IF a.out = <<>> THEN [s EXCEPT !.tool_log = log, !.heap = a.heap]
        ELSE [heap |-> Annotate(a.heap, a.out, tech, dict_path),
              all_results |-> s.all_results \o a.out,
              tech_results_map |-> SetItem(s.tech_results_map, tech, a.out),
              ffuf_results |-> SetItem(s.ffuf_results, <<url, tech>>, a.out),
              tool_log |-> log,
              exit |-> FALSE]

\* the document json.dump writes in _save_results
SavedDocument(h, m, occ, url, results, tech_results_map) ==
    [url |-> url,
     mode |-> m,
     occurrence_threshold |-> occ,
     technologies_detected |->
        [i \in 1..Len(tech_results_map) |-> tech_results_map[i].key],
     results_by_tech |->
        [i \in 1..Len(tech_results_map) |->
            [tech |-> tech_results_map[i].key,
             count |-> Len(tech_results_map[i].value)]],
     results |-> Deref(h, results)]

\* the mutant: the document is written whether or not there is a result
SaveAlways(all_results) == TRUE

\* the test of line 397
SaveWanted(all_results) == all_results # <<>>

\* the names detect_technologies may return
DetectedNames == { s_php, s_nginx, <<"z","z">> }

\* lines 360-366: the detected set is stored; nothing else is done for a URL
\* without a detected technology
StoreDetected ==
    /\ pc = "detected"
    /\ detected_techs' = [u \in DOMAIN detected_techs \cup {proc.url} |->
                             IF u = proc.url THEN proc.detected ELSE detected_techs[u]]
    /\ pc' = IF proc.detected = {} THEN "processed" ELSE "fuzz"
    /\ UNCHANGED <<argv, fs, git_log, deleted, exit_status, error, tech_to_dict,
                   mode, occurrence, ffuf_results, env, url_idx, proc, heap,
                   tool_log, saved, call, ret>>

\* one turn of `for tech in detected_techs` (a set: any order): the
\* technology is skipped when _find_matching_dict finds no dictionary
\* (lines 372-377), and fuzzed otherwise
FuzzTech ==
    /\ pc = "fuzz"
    /\ \E tech \in proc.pending :
          LET dict_path == _find_matching_dict(tech_to_dict, mode, tech)
              s0 == [heap |-> heap, all_results |-> proc.all_results,
                     tech_results_map |-> proc.tech_results_map,
                     ffuf_results |-> ffuf_results,
                     tool_log |-> tool_log, exit |-> FALSE]
          IN  \E outcome \in IF dict_path = None THEN { [kind |-> "none"] }
                             ELSE FfufOutcomes :
                LET s == IF dict_path = None THEN s0
                         ELSE ProcessTech(s0, occurrence, proc.url, tech,
                                          dict_path, outcome)
                IN  /\ heap' = s.heap
                    /\ ffuf_results' = s.ffuf_results
                    /\ tool_log' = s.tool_log
                    /\ proc' = [proc EXCEPT !.pending = proc.pending \ {tech},
                                            !.all_results = s.all_results,
                                            !.tech_results_map = s.tech_results_map]
                    /\ pc' = IF s.exit THEN "exited" ELSE "fuzz"
                    /\ exit_status' = IF s.exit THEN 1 ELSE exit_status
                    /\ error' = IF s.exit THEN "ffuf_missing" ELSE error
    /\ UNCHANGED <<argv, fs, git_log, deleted, tech_to_dict, mode, occurrence,
                   detected_techs, env, url_idx, saved, call, ret>>

\* lines 397-401: the results are saved and displayed, if there are any
FinishUrl ==
    /\ pc = "fuzz"
    /\ proc.pending = {}
    /\ saved' = IF SaveWanted(proc.all_results)
                THEN Append(saved, SavedDocument(heap, mode, occurrence, proc.url,
                                                 proc.all_results, proc.tech_results_map))
                ELSE saved
    /\ pc' = "processed"
    /\ UNCHANGED <<argv, fs, git_log, deleted, exit_status, error, tech_to_dict,
                   mode, occurrence, detected_techs, ffuf_results, env, url_idx,
                   proc, heap, tool_log, call, ret>>

InitFuzz ==
    \E l \in { << s_php \o s_long_txt, s_nginx \o s_long_txt >>,
               << s_phpmyadmin \o s_short_txt >> },
       m \in {"short", "long"}, occ \in 0..MaxOccurrence,
       u \in {"http://a"}, D \in SUBSET DetectedNames :
        /\ InitObject(l, m, occ)
        /\ pc = "detected"
        /\ call = [fn |-> "process_url", arg |-> u]
        /\ proc = [url |-> u, detected |-> D, pending |-> D,
                   all_results |-> <<>>, tech_results_map |-> <<>>]
NextFuzz == StoreDetected \/ FuzzTech \/ FinishUrl
SpecFuzz == InitFuzz /\ [][NextFuzz]_vars

(***************************************************************************)
(* Claims                                                                  *)
(***************************************************************************)
Returned(f) == pc = "returned" /\ call.fn = f

\* the number of records of `records` in the length class of records[i]
ClassSize(records, i) ==
    Cardinality({ j \in 1..Len(records) :
        (IF "length" \in DOMAIN records[j] THEN records[j].length ELSE 0)
      = (IF "length" \in DOMAIN records[i] THEN records[i].length ELSE 0) })

\* the indices of the records whose length class has at most occ members
RareIndices(records, occ) ==
    { i \in 1..Len(records) : ClassSize(records, i) <= occ }

\* C1: analyze_results returns, in the order of the input, exactly the
\* records whose length (0 when missing) is carried by at most `occurrence`
\* records of the input list, each with that number as occurrence_count; a
\* record is dropped exactly when its length is carried by more.
C1_OccurrenceFilter ==
    Returned("analyze_results") =>
        LET records == call.arg
            rare == RareIndices(records, occurrence)
        IN  /\ Len(ret) = Cardinality(rare)
            /\ \A i \in rare :
                  heap[ret[Cardinality({ j \in rare : j <= i })]]
                  = [k \in DOMAIN records[i] \cup {"occurrence_count"} |->
                        IF k = "occurrence_count" THEN ClassSize(records, i)
                        ELSE records[i][k]]

\* analyze_results has kept one length class and dropped another
C1_Witness ==
    /\ Returned("analyze_results")
    /\ ret # <<>>
    /\ Len(ret) < Len(call.arg)

\* What C6 says of one step: a call of _normalize_tech_name, _find_matching_dict or
\* analyze_results leaves tech_to_dict, detected_techs, ffuf_results, mode
\* and occurrence unchanged; analyze_results leaves the records passed to
\* it as they were, without occurrence_count; and the call repeated with
\* the same argument returns the same result.
C6_CallIsPure ==
    /\ UNCHANGED <<tech_to_dict, detected_techs, ffuf_results, mode, occurrence>>
    /\ (pc = "call" /\ pc' = "returned" /\ call.fn = "analyze_results") =>
          /\ SubSeq(heap', 1, Len(call.arg)) = call.arg
          /\ \A i \in 1..Len(call.arg) : "occurrence_count" \notin DOMAIN heap'[i]
          /\ call.again => Deref(heap', ret') = Deref(heap, ret)
    /\ (pc = "call" /\ pc' = "returned" /\ call.fn # "analyze_results") =>
          (call.again => ret' = ret)

\* C6: every step of a direct call of one of the three methods is pure in
\* the sense of C6_CallIsPure.
C6_Pure == [][C6_CallIsPure]_vars

\* analyze_results has been called a second time and has kept a record
C6_Witness ==
    /\ Returned("analyze_results")
    /\ call.again
    /\ ret # <<>>

\* the files of technology T in the dictionary directory
HasFile(listing, T, suffix) ==
    \E i \in 1..Len(listing) : listing[i] = T \o suffix

ModeSuffix(m) == IF m = "short" THEN s_short_txt ELSE s_long_txt

\* C7: when the normalized name is a technology T with a file T_short.txt or
\* T_long.txt in the dictionary directory, _find_matching_dict returns the
\* file of T of the configured mode when it exists, otherwise T_long.txt,
\* otherwise T_short.txt.
C7_ModePreferenceWithFallback ==
    Returned("_find_matching_dict") =>
        LET T == _normalize_tech_name(call.arg)
            listing == fs[argv.dict].txt
        IN  (HasFile(listing, T, s_short_txt) \/ HasFile(listing, T, s_long_txt)) =>
               ret = IF HasFile(listing, T, ModeSuffix(mode)) THEN T \o ModeSuffix(mode)
                     ELSE IF HasFile(listing, T, s_long_txt) THEN T \o s_long_txt
                     ELSE T \o s_short_txt

\* the stored technologies that equal the normalized name n, contain it or
\* are contained in it, and have a stored wordlist
Candidates(ttd, n) ==
    { i \in 1..Len(ttd) :
        /\ DOMAIN ttd[i].files # {}
        /\ \/ ttd[i].tech = n
           \/ \E k \in 0..(Len(ttd[i].tech) - Len(n)) :
                 SubSeq(ttd[i].tech, k + 1, k + Len(n)) = n
           \/ \E k \in 0..(Len(n) - Len(ttd[i].tech)) :
                 SubSeq(n, k + 1, k + Len(ttd[i].tech)) = ttd[i].tech }

\* C8: a path returned by _find_matching_dict is a stored wordlist of a
\* technology that equals the normalized name, contains it or is contained
\* in it; None is returned exactly when no technology with a stored
\* wordlist stands in one of these relations to the normalized name.
C8_FuzzyMatching ==
    Returned("_find_matching_dict") =>
        LET cands == Candidates(tech_to_dict, _normalize_tech_name(call.arg))
        IN  /\ ret = None <=> cands = {}
            /\ ret # None =>
                  \E i \in cands : \E t \in DOMAIN tech_to_dict[i].files :
                      tech_to_dict[i].files[t] = ret

\* _find_matching_dict has returned the wordlist of a technology whose name
\* is not the normalized name, and no wordlist of the normalized name exists
C8_Witness ==
    /\ Returned("_find_matching_dict")
    /\ ret # None
    /\ \A i \in Candidates(tech_to_dict, _normalize_tech_name(call.arg)) :
          tech_to_dict[i].tech # _normalize_tech_name(call.arg)

\* a name made of lowercase letters and inner hyphens, without `detect`
IsBaseName(x) ==
    /\ x # <<>>
    /\ \A i \in 1..Len(x) :
          x[i] = "-" \/ \E k \in 1..26 : LowerLetters[k] = x[i]
    /\ x[1] # "-"
    /\ x[Len(x)] # "-"
    /\ \A k \in 0..(Len(x) - 6) : SubSeq(x, k + 1, k + 6) # s_detect

\* lowercase, no space, underscore or dot, no leading or trailing hyphen
IsNormalForm(x) ==
    /\ \A i \in 1..Len(x) :
          /\ x[i] \notin {" ", "_", "."}
          /\ \A k \in 1..26 : UpperLetters[k] # x[i]
    /\ x # <<>> => (x[1] # "-" /\ x[Len(x)] # "-")

\* C9: for a base name X, _normalize_tech_name gives X for `X`, `X-detect`,
\* `X detect`, `X_detect`, `X-detection` and `X_detection`, and the result
\* is in normal form.
C9_DetectionSuffixStripped ==
    Returned("_normalize_tech_name") =>
        \A suffix \in { <<>> } \cup DetectSuffixes :
            \A n \in 1..Len(call.arg) :
                LET X == SubSeq(call.arg, 1, n) IN
                (IsBaseName(X) /\ call.arg = X \o suffix) =>
                    (ret = X /\ IsNormalForm(ret))

\* C11: normalization is idempotent: normalizing the name returned by
\* _normalize_tech_name (as _find_matching_dict does at line 146 with a name
\* normalized at line 253) gives that name again.
C11_NormalizeIdempotent ==
    Returned("_normalize_tech_name") => _normalize_tech_name(ret) = ret

\* run has been entered (the program got past provisioning and construction)
RunEntered ==
    \/ pc = "run"
    \/ pc = "exited" /\ error \notin {"clone_failed", "git_missing", "dict_missing"}

\* a subprocess of `tool` has been started for url
Started(tool, url) ==
    \E k \in 1..Len(tool_log) : tool_log[k].tool = tool /\ tool_log[k].url = url

\* C2: for every URL process_url has been entered for, nuclei has been
\* started when one of the detection templates exists, ffuf has been started
\* once for each detected technology with a wordlist, and, unless a tool is
\* missing, the program ends by run reaching its end after the last URL.
C2_ScannerThenFuzzerThenEnd ==
    (RunEntered /\ pc = "exited") =>
        /\ \A i \in 1..url_idx :
              TemplatesToUse(fs, argv.nuclei_templates) # {} =>
                  Started("nuclei", argv.urls[i])
        /\ \A u \in DOMAIN detected_techs : \A t \in detected_techs[u] :
              _find_matching_dict(tech_to_dict, mode, t) # None =>
                  Cardinality({ k \in 1..Len(tool_log) :
                      /\ tool_log[k].tool = "ffuf"
                      /\ tool_log[k].url = u
                      /\ tool_log[k].tech = t }) = 1
        /\ error \notin {"nuclei_missing", "ffuf_missing"} =>
              (url_idx = Len(argv.urls) /\ exit_status = 0)

\* C4: when the scanner runs into its timeout, every URL is still processed,
\* with an empty set of technologies and without fuzzing, and run reaches
\* its end; when the scanner executable is missing, the program exits with
\* status 1 at the first URL.
C4_TimeoutAndNotFound ==
    (RunEntered /\ pc = "exited" /\ argv.urls # <<>>
       /\ TemplatesToUse(fs, argv.nuclei_templates) # {}) =>
        /\ env.nuclei = "timeout" =>
              /\ url_idx = Len(argv.urls)
              /\ \A i \in 1..Len(argv.urls) :
                    /\ argv.urls[i] \in DOMAIN detected_techs
                    /\ detected_techs[argv.urls[i]] = {}
                    /\ ~Started("ffuf", argv.urls[i])
              /\ exit_status = 0
        /\ env.nuclei = "missing" => (exit_status = 1 /\ url_idx = 1)

\* a git clone of repo has ended with outcome
Cloned(log, repo, outcome) ==
    \E k \in 1..Len(log) : log[k].repo = repo /\ log[k].outcome = outcome

\* What C10 says of one step: ensure_repositories neither deletes nor clones a directory that
\* exists and holds the expected files; when it returns after a successful
\* clone of OneListForAll, dict_path exists, and constructing Intervention
\* does not end with the missing-directory error; a failed clone and a
\* missing git end the program with status 1.
C10_ProvisioningStep ==
    /\ (pc = "main" /\ pc' # "main" /\ ~argv.no_auto_clone) =>
          /\ (argv.dict \in DOMAIN fs /\ fs[argv.dict].txt # <<>>) =>
                /\ \A k \in 1..Len(git_log') : git_log'[k].repo # "OneListForAll"
                /\ \A x \in deleted' : x.path # argv.dict
          /\ (argv.nuclei_templates \in DOMAIN fs
                /\ fs[argv.nuclei_templates].yaml # {}) =>
                /\ \A k \in 1..Len(git_log') : git_log'[k].repo # "nuclei-templates"
                /\ \A x \in deleted' : x.path # argv.nuclei_templates
          /\ (pc' = "init" /\ Cloned(git_log', "OneListForAll", "ok")) =>
                (argv.dict = <<>> \/ argv.dict \in DOMAIN fs')
          /\ (Cloned(git_log', "OneListForAll", "failed")
                \/ Cloned(git_log', "OneListForAll", "missing")
                \/ Cloned(git_log', "nuclei-templates", "failed")
                \/ Cloned(git_log', "nuclei-templates", "missing")) =>
                (pc' = "exited" /\ exit_status' = 1)
    /\ (pc = "init" /\ Cloned(git_log, "OneListForAll", "ok")) =>
          error' # "dict_missing"

\* C10: every step of the program satisfies C10_ProvisioningStep.
C10_Provisioning == [][C10_ProvisioningStep]_vars

\* a record without what process_url and analyze_results add to it
Bare(r) ==
    [k \in DOMAIN r \ {"occurrence_count", "tech", "dict_used"} |-> r[k]]

LengthOf(r) == IF "length" \in DOMAIN r THEN r.length ELSE 0

\* the ffuf runs made for url, in order
FfufRuns(url) ==
    SelectSeq(tool_log, LAMBDA e : e.tool = "ffuf" /\ e.url = url)

\* all the discovery records obtained for url
RECURSIVE Concat(_)
Concat(runs) ==
    IF runs = <<>> THEN <<>> ELSE Head(runs).records \o Concat(Tail(runs))

\* the number of records of `records` with the length of r
CountLength(records, r) ==
    Cardinality({ j \in 1..Len(records) : LengthOf(records[j]) = LengthOf(r) })

KeptOfRun(run, occ) ==
    LET rare == RareIndices(run.records, occ)
        Nth(k) == CHOOSE i \in rare : Cardinality({ j \in rare : j <= i }) = k
    IN  [k \in 1..Cardinality(rare) |->
            [f \in DOMAIN run.records[Nth(k)] \cup {"occurrence_count", "tech", "dict_used"} |->
                IF f = "occurrence_count" THEN ClassSize(run.records, Nth(k))
                ELSE IF f = "tech" THEN run.tech
                ELSE IF f = "dict_used" THEN run.wordlist
                ELSE run.records[Nth(k)][f]]]

RECURSIVE KeptOfRuns(_, _)
KeptOfRuns(runs, occ) ==
    IF runs = <<>> THEN <<>>
    ELSE KeptOfRun(Head(runs), occ) \o KeptOfRuns(Tail(runs), occ)

RECURSIVE SumCounts(_)
SumCounts(by_tech) ==
    IF by_tech = <<>> THEN 0 ELSE Head(by_tech).count + SumCounts(Tail(by_tech))

====
